---------------------------- MODULE Spec2Model ----------------------------
(***************************************************************************)
(* A model of src/main.py: the voxel-terrain explorer's frame loop         *)
(* (run_app / update_app / update_player / update_voxel_render), its chunk *)
(* manager (load_chunks_around / chunk_loader) and the per-column march of *)
(* ray_casting.                                                            *)
(*                                                                         *)
(* Numbers.  The program computes in float64.  The model computes in       *)
(* fixed point with three decimals: a float value v is the integer         *)
(* round(v * U), U = 1000, and every product or quotient is rounded to the *)
(* nearest unit (MulU, DivU), as a float operation rounds to the nearest   *)
(* representable value.  Quantities that are integers in the program       *)
(* (draw_distance, terrain heights, milliseconds, screen rows) stay        *)
(* integers.                                                               *)
(*                                                                         *)
(* Time.  dt is carried as dt60 = dt * 60, a natural number of 1/60 s; the *)
(* millisecond clock pg.time.get_ticks() is the variable now.              *)
(*                                                                         *)
(* Angles.  Yaw is carried in units of pi/12 (the half field of view       *)
(* h_fov), with cos and sin read from an exact-to-three-decimals table;    *)
(* the mouse x delta is counted in the number of pixels that turns pi/12.  *)
(***************************************************************************)
EXTENDS Integers, Sequences, FiniteSets, TLC

VARIABLES
    app,              \* app dict: draw_distance, world_scale, dt
    player,           \* app['player']
    cm,               \* app['chunk_manager']: loaded_chunks, load_queue
    worker,           \* the chunk_loader thread: its position and local
    vr,               \* app['voxel_render']: ray_distance, sky_width, the sky blits
    base_height_map,  \* the terrain loaded at import: its kind and shape
    keys,             \* pg.key.get_pressed() / pg.mouse.get_rel() at the last poll
    now,              \* pg.time.get_ticks() at the last poll, in ms
    last_edge,        \* history: <<time of the jump-key down-edge before the last, time of
                      \* the last>>, NoEdge where there was none
    ticks,            \* history: number of frames run
    rc                \* one ray_casting call: its arguments and loop state

vars == <<app, player, cm, worker, vr, base_height_map, keys, now, last_edge, ticks, rc>>

---------------------------------------------------------------------------
(* Fixed-point arithmetic *)

\* One unit of a float value: three decimals.
U == 10 * 10 * 10

Abs(n) == IF n >= 0 THEN n ELSE -n

Min(a, b) == IF a <= b THEN a ELSE b

Max(a, b) == IF a >= b THEN a ELSE b

\* n / d rounded to the nearest integer (d > 0), halves away from zero.
RoundDiv(n, d) == IF n >= 0 THEN (2 * n + d) \div (2 * d)
                            ELSE -((2 * (-n) + d) \div (2 * d))

\* The float product a * b of two fixed-point values.
MulU(a, b) == RoundDiv(a * b, U)

\* The float quotient a / b of two fixed-point values (b > 0).
DivU(a, b) == RoundDiv(a * U, b)

\* Python's int(x) of a float: truncation toward zero.
TruncInt(x) == IF x >= 0 THEN x \div U ELSE -((-x) \div U)

\* math.pow(b, k) for a natural exponent k.
RECURSIVE Pow(_, _)
Pow(b, k) == IF k = 0 THEN U ELSE MulU(Pow(b, k - 1), b)

\* cos and sin of an angle given in units of pi/12.
CosTable == <<1000, 966, 866, 707, 500, 259, 0>>

Cos(k) ==
    LET r == k % 24
    IN  IF r <= 6 THEN CosTable[r + 1]
        ELSE IF r <= 12 THEN -CosTable[12 - r + 1]
        ELSE IF r <= 18 THEN -CosTable[r - 12 + 1]
        ELSE CosTable[24 - r + 1]

Sin(k) == Cos(k - 6)

---------------------------------------------------------------------------
(* Configuration constants (src/main.py 8-38) *)

CHUNK_SIZE == 10
LOAD_DISTANCE == 1
DRAW_DISTANCE == 5000
INFINITE_MAP == FALSE
ACCELERATION == 2
DAMPING == (8 * U) \div 10
PITCH_ACCEL == (5 * U) \div 10
PITCH_DAMPING == (9 * U) \div 10
PITCH_MIN == (-1000) * U
PITCH_MAX == 1000 * U
WORLD_SCALE == 1 * U
WORLD_SCALE_MIN == 1 * U
WORLD_SCALE_MAX == 5 * U
WORLD_SCALE_STEP == U \div 10

\* Literals of the code.
EYE_OFFSET == 40               \* "+ 40" / "40 * world_scale"
PITCH_MOUSE_GAIN == (7 * U) \div 10   \* mouse_rel[1] * 0.7
DOUBLE_TAP_MS == 300
DRAW_DISTANCE_MAX == 3000
DRAW_DISTANCE_MIN == 500
DRAW_DISTANCE_STEP == 50
GRAVITY == (9 * U) \div 10     \* player['gravity']
JUMP_FORCE == 12 * U           \* player['jump_force']
INITIAL_ANGLE == 3             \* math.pi / 4, in units of pi/12
INITIAL_RAY_DISTANCE == 1000   \* vr['ray_distance'] at creation
SCALE_HEIGHT == 920            \* vr['scale_height']
H_FOV == 1                     \* vr['h_fov'] = pi/12, in units of pi/12

NoEdge == 0 - 1

---------------------------------------------------------------------------
(* Terrain: base_height_map, channel 0 *)

HillHeights == <<0, 38, 40, 39, 41, 36, 44, 40>>

\* base_height_map[x, y][0]
HeightMapAt(hm, x, y) ==
    IF hm.kind = "flat" THEN 0
    ELSE HillHeights[((3 * x + 5 * y) % Len(HillHeights)) + 1]

optimized_collision_check(pos, hm) ==
    LET x0 == TruncInt(pos[1])
        y0 == TruncInt(pos[2])
        x  == IF INFINITE_MAP THEN x0 % hm.shape[1]
              ELSE IF x0 < 0 THEN 0
              ELSE IF x0 >= hm.shape[1] THEN hm.shape[1] - 1
              ELSE x0
        y  == IF INFINITE_MAP THEN y0 % hm.shape[2]
              ELSE IF y0 < 0 THEN 0
              ELSE IF y0 >= hm.shape[2] THEN hm.shape[2] - 1
              ELSE y0
    IN  HeightMapAt(hm, x, y)

---------------------------------------------------------------------------
(* Player (src/main.py 144-275) *)

create_player(hm) ==
    LET initial_pos == <<(hm.shape[1] \div 2) * U, (hm.shape[2] \div 2) * U>>
        terrain_height == optimized_collision_check(initial_pos, hm)
    IN  [ pos                |-> initial_pos,
          height             |-> (terrain_height + EYE_OFFSET) * U,
          vel                |-> <<0, 0>>,
          v_vel              |-> 0,
          pitch              |-> 0,
          pitch_vel          |-> 0,
          flying             |-> FALSE,
          last_space_press   |-> 0,
          space_pressed_prev |-> FALSE,
          angle              |-> INITIAL_ANGLE,
          is_on_ground       |-> TRUE,
          velocity_y         |-> 0 ]

\* ClampPitch with the upper limit forgotten.
ClampPitch_NoMax(pitch) == Max(pitch, PITCH_MIN)

\* max(min(pitch, PITCH_MAX), PITCH_MIN)
ClampPitch(pitch) == Max(Min(pitch, PITCH_MAX), PITCH_MIN)

\* scale_factor = 1.0 / world_scale
ScaleFactor(world_scale) == DivU(U, world_scale)

\* terrain_height + 40 * world_scale, the lowest height the code allows
FloorHeight(pos, hm, world_scale) ==
    optimized_collision_check(pos, hm) * world_scale + EYE_OFFSET * world_scale

\* --- Mouse Look ---
MouseLook(p, in) ==
    [p EXCEPT !.angle = @ + in.mouse_rel[1] * in.dt60,
              !.pitch = ClampPitch(@ - in.mouse_rel[2] * PITCH_MOUSE_GAIN * in.dt60)]

\* input_vec, normalised when it is not zero
InputVec(in) ==
    LET ix == (IF in.d THEN 1 ELSE 0) - (IF in.a THEN 1 ELSE 0)
        iy == (IF in.w THEN 1 ELSE 0) - (IF in.s THEN 1 ELSE 0)
        \* 1 / sqrt(2) for a diagonal, 1 for an axis
        n  == IF ix # 0 /\ iy # 0 THEN 707 ELSE U
    IN  <<ix * n, iy * n>>

\* HorizontalMovement with the "vel *= pow(DAMPING, dt * 60)" line left out.
HorizontalMovement_NoDamping(p, in, world_scale) ==
    LET iv   == InputVec(in)
        sf   == ScaleFactor(world_scale)
        vx   == p.vel[1] + MulU(iv[1] * ACCELERATION * in.dt60, sf)
        vy   == p.vel[2] + MulU(iv[2] * ACCELERATION * in.dt60, sf)
        mx   == MulU(Cos(p.angle), vy) - MulU(Sin(p.angle), vx)
        my   == MulU(Sin(p.angle), vy) + MulU(Cos(p.angle), vx)
    IN  [p EXCEPT !.vel = <<vx, vy>>,
                  !.pos = <<p.pos[1] + MulU(mx * in.dt60, sf),
                            p.pos[2] + MulU(my * in.dt60, sf)>>]

\* --- Horizontal Movement ---
HorizontalMovement(p, in, world_scale) ==
    LET iv   == InputVec(in)
        sf   == ScaleFactor(world_scale)
        damp == Pow(DAMPING, in.dt60)
        vx   == MulU(p.vel[1] + MulU(iv[1] * ACCELERATION * in.dt60, sf), damp)
        vy   == MulU(p.vel[2] + MulU(iv[2] * ACCELERATION * in.dt60, sf), damp)
        mx   == MulU(Cos(p.angle), vy) - MulU(Sin(p.angle), vx)
        my   == MulU(Sin(p.angle), vy) + MulU(Cos(p.angle), vx)
    IN  [p EXCEPT !.vel = <<vx, vy>>,
                  !.pos = <<p.pos[1] + MulU(mx * in.dt60, sf),
                            p.pos[2] + MulU(my * in.dt60, sf)>>]

\* One axis of the clamp: <<position, velocity component>>.
ClampAxis(x, v, size) ==
    IF x < 0 THEN <<0, Max(0, v)>>
    ELSE IF x >= size * U THEN <<(size - 1) * U, Min(0, v)>>
    ELSE <<x, v>>

\* --- Clamp Position ---
ClampPosition(p, hm) ==
    IF INFINITE_MAP THEN p
    ELSE LET cx == ClampAxis(p.pos[1], p.vel[1], hm.shape[1])
             cy == ClampAxis(p.pos[2], p.vel[2], hm.shape[2])
         IN  [p EXCEPT !.pos = <<cx[1], cy[1]>>, !.vel = <<cx[2], cy[2]>>]

\* --- Vertical Movement ---
VerticalMovement(p, in, world_scale) ==
    LET vertical_input == (IF in.space THEN 1 ELSE 0) - (IF in.shift THEN 1 ELSE 0)
        sf    == ScaleFactor(world_scale)
        v_vel == MulU(p.v_vel + vertical_input * ACCELERATION * in.dt60 * sf,
                      Pow(DAMPING, in.dt60))
    IN  [p EXCEPT !.v_vel = v_vel,
                  !.height = @ + MulU(v_vel * in.dt60, sf)]

\* TerrainCollision with the snap to the floor left out.
TerrainCollision_NoSnap(p, hm, world_scale) == p

\* --- Terrain Collision ---
TerrainCollision(p, hm, world_scale) ==
    LET floor == FloorHeight(p.pos, hm, world_scale)
    IN  IF p.height < floor
        THEN [p EXCEPT !.height = floor, !.v_vel = 0]
        ELSE p

\* --- Pitch ---
PitchUpdate(p, in) ==
    LET pitch_input == (IF in.down THEN 1 ELSE 0) - (IF in.up THEN 1 ELSE 0)
        pitch_vel   == MulU(p.pitch_vel + pitch_input * PITCH_ACCEL * in.dt60,
                            Pow(PITCH_DAMPING, in.dt60))
    IN  [p EXCEPT !.pitch_vel = pitch_vel,
                  !.pitch = ClampPitch(@ + pitch_vel * in.dt60)]

\* FlyingToggle with last_space_press stamped only on a double tap.
FlyingToggle_StaleStamp(p, in, current_time, world_scale) ==
    LET edge == in.space /\ ~p.space_pressed_prev
        dbl  == current_time - p.last_space_press < DOUBLE_TAP_MS
        q    == IF edge /\ dbl
                THEN [p EXCEPT !.flying = ~p.flying, !.velocity_y = 0,
                               !.last_space_press = current_time]
                ELSE IF edge /\ ~p.flying /\ p.is_on_ground
                THEN [p EXCEPT !.velocity_y = MulU(JUMP_FORCE, ScaleFactor(world_scale)),
                               !.is_on_ground = FALSE]
                ELSE p
    IN  [q EXCEPT !.space_pressed_prev = in.space]

\* FlyingToggle with the single tap's "if player['is_on_ground']" left out.
FlyingToggle_AirJump(p, in, current_time, world_scale) ==
    LET edge == in.space /\ ~p.space_pressed_prev
        dbl  == current_time - p.last_space_press < DOUBLE_TAP_MS
        q    == IF edge /\ dbl
                THEN [p EXCEPT !.flying = ~p.flying, !.velocity_y = 0,
                               !.last_space_press = current_time]
                ELSE IF edge /\ ~p.flying
                THEN [p EXCEPT !.velocity_y = MulU(JUMP_FORCE, ScaleFactor(world_scale)),
                               !.is_on_ground = FALSE,
                               !.last_space_press = current_time]
                ELSE IF edge
                THEN [p EXCEPT !.last_space_press = current_time]
                ELSE p
    IN  [q EXCEPT !.space_pressed_prev = in.space]

\* --- Flying Toggle ---
FlyingToggle(p, in, current_time, world_scale) ==
    LET edge == in.space /\ ~p.space_pressed_prev
        dbl  == current_time - p.last_space_press < DOUBLE_TAP_MS
        q    == IF ~p.flying
                THEN IF edge
                     THEN IF dbl
                          THEN [p EXCEPT !.flying = TRUE, !.velocity_y = 0,
                                         !.last_space_press = current_time]
                          ELSE IF p.is_on_ground
                               THEN [p EXCEPT !.velocity_y =
                                                 MulU(JUMP_FORCE, ScaleFactor(world_scale)),
                                              !.is_on_ground = FALSE,
                                              !.last_space_press = current_time]
                               ELSE [p EXCEPT !.last_space_press = current_time]
                     ELSE p
                ELSE IF edge
                     THEN IF dbl
                          THEN [p EXCEPT !.flying = FALSE, !.velocity_y = 0,
                                         !.last_space_press = current_time]
                          ELSE [p EXCEPT !.last_space_press = current_time]
                     ELSE p
    IN  [q EXCEPT !.space_pressed_prev = in.space]

\* Gravity with the landing's "velocity_y = 0" left out.
Gravity_NoReset(p, in, hm, world_scale) ==
    IF p.flying THEN p
    ELSE LET velocity_y == p.velocity_y - GRAVITY * in.dt60
             height     == p.height + MulU(velocity_y * in.dt60, ScaleFactor(world_scale))
             floor      == FloorHeight(p.pos, hm, world_scale)
         IN  IF height < floor
             THEN [p EXCEPT !.height = floor, !.velocity_y = velocity_y,
                            !.is_on_ground = TRUE]
             ELSE [p EXCEPT !.height = height, !.velocity_y = velocity_y,
                            !.is_on_ground = FALSE]

\* Gravity with the "if not player['flying']" left out.
Gravity_WhileFlying(p, in, hm, world_scale) ==
    LET velocity_y == p.velocity_y - GRAVITY * in.dt60
        height     == p.height + MulU(velocity_y * in.dt60, ScaleFactor(world_scale))
        floor      == FloorHeight(p.pos, hm, world_scale)
    IN  IF height < floor
        THEN [p EXCEPT !.height = floor, !.velocity_y = 0, !.is_on_ground = TRUE]
        ELSE [p EXCEPT !.height = height, !.velocity_y = velocity_y,
                       !.is_on_ground = FALSE]

\* --- Gravity ---
Gravity(p, in, hm, world_scale) ==
    IF p.flying THEN p
    ELSE LET velocity_y == p.velocity_y - GRAVITY * in.dt60
             height     == p.height + MulU(velocity_y * in.dt60, ScaleFactor(world_scale))
             floor      == FloorHeight(p.pos, hm, world_scale)
         IN  IF height < floor
             THEN [p EXCEPT !.height = floor, !.velocity_y = 0, !.is_on_ground = TRUE]
             ELSE [p EXCEPT !.height = height, !.velocity_y = velocity_y,
                            !.is_on_ground = FALSE]

\* update_player, without its last line (load_chunks_around)
update_player(p, in, hm, current_time, world_scale) ==
    LET p1 == MouseLook(p, in)
        p2 == HorizontalMovement(p1, in, world_scale)
        p3 == ClampPosition(p2, hm)
        p4 == VerticalMovement(p3, in, world_scale)
        p5 == TerrainCollision(p4, hm, world_scale)
        p6 == PitchUpdate(p5, in)
        p7 == FlyingToggle(p6, in, current_time, world_scale)
    IN  Gravity(p7, in, hm, world_scale)

---------------------------------------------------------------------------
(* Chunk manager (src/main.py 46-84) *)

get_chunk(world_x, world_y) ==
    <<world_x \div (CHUNK_SIZE * U), world_y \div (CHUNK_SIZE * U)>>

ChunksToLoad(player_pos) ==
    LET current_chunk == get_chunk(player_pos[1], player_pos[2])
    IN  { <<current_chunk[1] + dx, current_chunk[2] + dy>> :
            dx \in (-LOAD_DISTANCE) .. LOAD_DISTANCE,
            dy \in (-LOAD_DISTANCE) .. LOAD_DISTANCE }

\* The coordinates of a set, in the order the put loop visits them (taken
\* here as the lexicographic order).
RECURSIVE InOrder(_)
InOrder(S) ==
    IF S = {} THEN <<>>
    ELSE LET c == CHOOSE a \in S :
                    \A b \in S : a[1] < b[1] \/ (a[1] = b[1] /\ a[2] <= b[2])
         IN  <<c>> \o InOrder(S \ {c})

\* load_chunks_around with the deletion of lines 79-81 left out.
load_chunks_around_NoDelete(player_pos, m) ==
    LET chunks_to_load == ChunksToLoad(player_pos)
    IN  [m EXCEPT !.load_queue = @ \o InOrder(chunks_to_load \ m.loaded_chunks)]

load_chunks_around(player_pos, m) ==
    LET chunks_to_load == ChunksToLoad(player_pos)
        kept           == m.loaded_chunks \cap chunks_to_load
    IN  [m EXCEPT !.loaded_chunks = kept,
                  !.load_queue = @ \o InOrder(chunks_to_load \ kept)]

init_chunk_manager == [loaded_chunks |-> {}, load_queue |-> <<>>]

\* chunk_loader, one step of its loop at a time.
WorkerGet ==
    /\ worker.pc = "get"
    /\ cm.load_queue # <<>>
    /\ worker' = [pc |-> "check", chunk_coord |-> Head(cm.load_queue)]
    /\ cm' = [cm EXCEPT !.load_queue = Tail(@)]
    /\ UNCHANGED <<app, player, vr, base_height_map, keys, now, last_edge, ticks, rc>>

WorkerCheck ==
    /\ worker.pc = "check"
    /\ worker' = [worker EXCEPT !.pc = IF worker.chunk_coord \notin cm.loaded_chunks
                                       THEN "insert" ELSE "task_done"]
    /\ UNCHANGED <<app, player, cm, vr, base_height_map, keys, now, last_edge, ticks, rc>>

WorkerInsert ==
    /\ worker.pc = "insert"
    /\ cm' = [cm EXCEPT !.loaded_chunks = @ \cup {worker.chunk_coord}]
    /\ worker' = [worker EXCEPT !.pc = "task_done"]
    /\ UNCHANGED <<app, player, vr, base_height_map, keys, now, last_edge, ticks, rc>>

WorkerTaskDone ==
    /\ worker.pc = "task_done"
    /\ worker' = [pc |-> "get", chunk_coord |-> <<>>]
    /\ UNCHANGED <<app, player, cm, vr, base_height_map, keys, now, last_edge, ticks, rc>>

---------------------------------------------------------------------------
(* Application (src/main.py 342-417) *)

SCREEN_WIDTH == 800

\* int(x) of the float n / d: the quotient truncated toward zero (d > 0).
TruncDiv(n, d) == IF n >= 0 THEN n \div d ELSE -((-n) \div d)

\* sky_width = int(width * 1.5)
SkyWidth(width) == TruncDiv(width * 15, 10)

\* sky_blits: history, the x positions at which the last update_voxel_render
\* blitted the sky image onto the screen surface (none before the first).
create_voxel_render(width) ==
    [ ray_distance |-> INITIAL_RAY_DISTANCE,
      sky_width    |-> SkyWidth(width),
      sky_blits    |-> <<>> ]

\* SkyXOffset with the remainder of C's %, which takes the dividend's sign.
SkyXOffset_Rem(angle, width, sky_width) ==
    LET q == TruncDiv(angle * width, 24)
    IN  IF q >= 0 THEN q % sky_width ELSE -((-q) % sky_width)

\* sky_x_offset = int((angle / (2 * pi)) * width) % sky_width, the angle in
\* units of pi/12 (angle / (2 * pi) = angle / 24).
SkyXOffset(angle, width, sky_width) ==
    TruncDiv(angle * width, 24) % sky_width

\* update_voxel_render up to the ray_casting call: the ray distance and the
\* two blits of the sky.
update_voxel_render(v, p, width, draw_distance) ==
    LET sky_x_offset == SkyXOffset(p.angle, width, v.sky_width)
    IN  [v EXCEPT !.ray_distance = draw_distance,
                  !.sky_blits = <<0 - sky_x_offset, v.sky_width - sky_x_offset>>]

init_app(hm) ==
    [ draw_distance |-> DRAW_DISTANCE,
      world_scale   |-> WORLD_SCALE,
      dt            |-> 0 ]

\* The PAGEUP / PAGEDOWN lines of update_app.
TuneDrawDistance(draw_distance, in) ==
    LET up == IF in.pgup THEN Min(DRAW_DISTANCE_MAX, draw_distance + DRAW_DISTANCE_STEP)
              ELSE draw_distance
    IN  IF in.pgdn THEN Max(DRAW_DISTANCE_MIN, up - DRAW_DISTANCE_STEP) ELSE up

\* TuneWorldScale with the min(WORLD_SCALE_MAX, ...) left out.
TuneWorldScale_NoMax(world_scale, in) ==
    LET up == IF in.plus THEN world_scale + WORLD_SCALE_STEP ELSE world_scale
    IN  IF in.minus THEN Max(WORLD_SCALE_MIN, up - WORLD_SCALE_STEP) ELSE up

\* The + / - lines of update_app.
TuneWorldScale(world_scale, in) ==
    LET up == IF in.plus THEN Min(WORLD_SCALE_MAX, world_scale + WORLD_SCALE_STEP)
              ELSE world_scale
    IN  IF in.minus THEN Max(WORLD_SCALE_MIN, up - WORLD_SCALE_STEP) ELSE up

\* clock.tick(240) of dt60 sixtieths of a second, in ms.
TickMs(dt60) == (dt60 * 1000) \div 60

\* The keys held, the mouse delta and the frame time of one poll.  A key name
\* stands for every key the code reads with it: "w" for K_w or mouse button
\* 0, "shift" for either shift key, "plus" for K_EQUALS or K_KP_PLUS, "minus"
\* for K_MINUS or K_KP_MINUS.
Input(held, mouse_rel, dt60) ==
    [ w     |-> "w" \in held,      s     |-> "s" \in held,
      a     |-> "a" \in held,      d     |-> "d" \in held,
      space |-> "space" \in held,  shift |-> "shift" \in held,
      up    |-> "up" \in held,     down  |-> "down" \in held,
      pgup  |-> "pgup" \in held,   pgdn  |-> "pgdn" \in held,
      plus  |-> "plus" \in held,   minus |-> "minus" \in held,
      mouse_rel |-> mouse_rel,     dt60  |-> dt60 ]

NoInput == Input({}, <<0, 0>>, 0)

\* update_app for the poll in, with pg.time.get_ticks() reading current_time,
\* as the n-th frame: tuning, update_player with load_chunks_around,
\* update_voxel_render.  The frame buffer that update_voxel_render fills is
\* followed in the ray-casting actions below.
Frame(in, current_time, n) ==
    LET draw_distance == TuneDrawDistance(app.draw_distance, in)
        world_scale   == TuneWorldScale(app.world_scale, in)
        p == update_player(player, in, base_height_map, current_time, world_scale)
    IN  /\ app' = [draw_distance |-> draw_distance, world_scale |-> world_scale,
                   dt |-> in.dt60]
        /\ player' = p
        /\ cm' = load_chunks_around(p.pos, cm)
        /\ vr' = update_voxel_render(vr, p, SCREEN_WIDTH, draw_distance)
        /\ keys' = in
        /\ now' = current_time
        /\ last_edge' = IF in.space /\ ~keys.space THEN <<last_edge[2], current_time>>
                        ELSE last_edge
        /\ ticks' = n
        /\ UNCHANGED <<worker, base_height_map, rc>>

\* One frame of run_app's loop: the clock advanced by the frame time, then
\* update_app.
Tick(in) == Frame(in, now + TickMs(in.dt60), ticks + 1)

\* The state after init_app on terrain hm, first polled t0 ms after pg.init.
InitProgram(hm, t0) ==
    /\ base_height_map = hm
    /\ app = init_app(hm)
    /\ player = create_player(hm)
    /\ cm = init_chunk_manager
    /\ worker = [pc |-> "get", chunk_coord |-> <<>>]
    /\ vr = create_voxel_render(SCREEN_WIDTH)
    /\ keys = NoInput
    /\ now = t0
    /\ last_edge = <<NoEdge, NoEdge>>
    /\ ticks = 0

\* ... with no ray_casting call under way.
InitApp(hm, t0) == InitProgram(hm, t0) /\ rc = [pc |-> "idle"]

---------------------------------------------------------------------------
(* ray_casting (src/main.py 107-142), one step of its loops at a time *)

SCREEN_HEIGHT == 450

\* delta_angle = fov / width, in units of pi/12 (fov = 2 * h_fov)
DeltaAngle(screen_width) == (2 * H_FOV) \div screen_width

\* The loop state at the first depth of column num_ray.
RayColumn(r, num_ray, ray_angle) ==
    [r EXCEPT !.num_ray = num_ray, !.ray_angle = ray_angle, !.depth = 1,
              !.first_contact = FALSE, !.lowerings = 0, !.last_write = {}]

\* The call's state on entry: y_buffer full of screen_height, the first ray at
\* player_angle - h_fov.  screen_array arrives filled with the sky.
RayStart(a) ==
    RayColumn(
        [ pc            |-> "march",
          player_pos    |-> a.player_pos,
          player_angle  |-> a.player_angle,
          player_height |-> a.player_height,
          player_pitch  |-> a.player_pitch,
          screen_width  |-> a.screen_width,
          screen_height |-> a.screen_height,
          ray_distance  |-> a.ray_distance,
          world_scale   |-> a.world_scale,
          num_ray       |-> 0,
          ray_angle     |-> 0,
          depth         |-> 1,
          first_contact |-> FALSE,
          lowerings     |-> 0,     \* history: times this column's horizon was lowered
          last_write    |-> {},    \* history: the rows the last pass wrote
          written       |-> [c \in 0 .. a.screen_width - 1 |-> {}],
                                   \* history: the rows written so far, by column
          y_buffer      |-> [c \in 0 .. a.screen_width - 1 |-> a.screen_height],
          screen_array  |-> [c \in 0 .. a.screen_width - 1 |->
                               [y \in 0 .. a.screen_height - 1 |-> "sky"]] ],
        0, a.player_angle - H_FOV)

\* x, y of the sample at the current depth, before any wrap.
RaySample(r) ==
    << TruncInt(r.player_pos[1] + r.depth * Cos(r.ray_angle)),
       TruncInt(r.player_pos[2] + r.depth * Sin(r.ray_angle)) >>

RayInMap(r, hm) ==
    LET xy == RaySample(r)
    IN  INFINITE_MAP \/ ~(xy[1] < 0 \/ xy[1] >= hm.shape[1]
                           \/ xy[2] < 0 \/ xy[2] >= hm.shape[2])

\* height_on_screen of the sample at <<x, y>>
HeightOnScreen(r, hm, x, y) ==
    LET depth_corr    == r.depth * Cos(r.player_angle - r.ray_angle)
        scaled_height == HeightMapAt(hm, x, y) * r.world_scale
    IN  TruncInt(DivU(r.player_height - scaled_height, depth_corr) * SCALE_HEIGHT
                   + r.player_pitch)

\* The horizon a column's first sample sets, with the min left out.
FirstHorizon_NoMin(height_on_screen, screen_height) == height_on_screen

\* y_buffer[num_ray] = min(height_on_screen, screen_height)
FirstHorizon(height_on_screen, screen_height) == Min(height_on_screen, screen_height)

\* The clamp of lines 135-136 left out.
ClampScreenY_NoClamp(height_on_screen) == height_on_screen

\* if height_on_screen < 0: height_on_screen = 0
ClampScreenY(height_on_screen) == IF height_on_screen < 0 THEN 0 ELSE height_on_screen

\* One pass of the depth loop's body (lines 127-140).
RayMarch ==
    /\ rc.pc = "march"
    /\ rc.depth < rc.ray_distance
    /\ RayInMap(rc, base_height_map)
    /\ LET xy0 == RaySample(rc)
           x   == IF INFINITE_MAP THEN xy0[1] % base_height_map.shape[1] ELSE xy0[1]
           y   == IF INFINITE_MAP THEN xy0[2] % base_height_map.shape[2] ELSE xy0[2]
           h0  == HeightOnScreen(rc, base_height_map, x, y)
           yb  == IF ~rc.first_contact THEN FirstHorizon(h0, rc.screen_height)
                  ELSE rc.y_buffer[rc.num_ray]
           h   == ClampScreenY(h0)
           \* range(height_on_screen, y_buffer[num_ray]), when the test passes
           rows == IF h < yb THEN h .. yb - 1 ELSE {}
       IN  rc' = [rc EXCEPT
                    !.first_contact = TRUE,
                    !.depth = @ + 1,
                    !.y_buffer[rc.num_ray] = IF h < yb THEN h ELSE yb,
                    !.lowerings = IF h < yb THEN @ + 1 ELSE @,
                    !.last_write = rows,
                    !.written[rc.num_ray] = @ \cup rows,
                    !.screen_array[rc.num_ray] =
                        [sy \in DOMAIN @ |->
                            IF sy \in rows THEN <<x, y>> ELSE @[sy]] ]
    /\ UNCHANGED <<app, player, cm, worker, vr, base_height_map, keys, now, last_edge, ticks>>

\* The depth loop ends (range exhausted, or the break at line 126): the next
\* ray, or the return.
RayEndColumn ==
    /\ rc.pc = "march"
    /\ ~(rc.depth < rc.ray_distance /\ RayInMap(rc, base_height_map))
    /\ rc' = IF rc.num_ray + 1 < rc.screen_width
             THEN RayColumn(rc, rc.num_ray + 1, rc.ray_angle + DeltaAngle(rc.screen_width))
             ELSE [rc EXCEPT !.pc = "done"]
    /\ UNCHANGED <<app, player, cm, worker, vr, base_height_map, keys, now, last_edge, ticks>>

---------------------------------------------------------------------------
(* Specifications *)

MapSize == 8
MaxTicks == 3

Hills == [kind |-> "hills", shape |-> <<MapSize, MapSize>>]

\* The general frame loop: every key group, the mouse, three frame times.
KeyChoices ==
    { {}, {"w"}, {"s"}, {"w", "a"}, {"space"}, {"shift"}, {"space", "w"},
      {"up"}, {"plus"}, {"pgup"} }

Inputs ==
    { Input(h, <<0, 0>>, dt) : h \in KeyChoices, dt \in {1, 3} }
      \cup { Input({}, m, 3) : m \in { <<2, 0>>, <<0, 500>>, <<0, -500>> } }
      \cup { Input(h, <<0, 0>>, 0) : h \in { {"space"}, {"shift"} } }

Init == InitApp(Hills, 0)

Next == ticks < MaxTicks /\ \E in \in Inputs : Tick(in)

Spec == Init /\ [][Next]_vars

\* Tuning: the draw-distance and world-scale keys, held or released.
MaxTuneTicks == 42

TuneInputs ==
    { Input(h, <<0, 0>>, 3) :
        h \in { {}, {"plus", "pgup"}, {"minus", "pgdn"}, {"plus", "minus"},
                {"pgup", "pgdn"} } }

NextTune == ticks < MaxTuneTicks /\ \E in \in TuneInputs : Tick(in)

SpecTune == Init /\ [][NextTune]_vars

\* Jumping: the jump key pressed and released over frames of 50 and 100 ms,
\* the world scale raised now and then; the first poll comes t0 ms after
\* pg.init.
MaxJumpTicks == 6

JumpInputs ==
    { Input(h, <<0, 0>>, dt) : h \in { {}, {"space"} }, dt \in {3, 6} }
      \cup { Input({"plus"}, <<0, 0>>, 3) }

InitJump == \E t0 \in {0, 300} : InitApp(Hills, t0)

NextJump == ticks < MaxJumpTicks /\ \E in \in JumpInputs : Tick(in)

SpecJump == InitJump /\ [][NextJump]_vars

\* Flat terrain (height 0 everywhere), world scale 1: frames with movement,
\* look and pitch input but no jump, ascend, descend or scale key.
MaxFlatTicks == 4

Flat == [kind |-> "flat", shape |-> <<MapSize, MapSize>>]

FlatInputs ==
    { Input(h, <<0, 0>>, dt) :
        h \in { {}, {"w"}, {"s", "d"}, {"a"}, {"down"} }, dt \in {1, 3} }
      \cup { Input({}, <<2, 300>>, 3) }

InitFlat == InitApp(Flat, 300)

NextFlat == ticks < MaxFlatTicks /\ \E in \in FlatInputs : Tick(in)

SpecFlat == InitFlat /\ [][NextFlat]_vars

\* Map edges: a small map, the player turned by the mouse and driven by the
\* movement keys toward its edges.
MaxEdgeTicks == 6

EdgeMapSize == 4

EdgeMap == [kind |-> "hills", shape |-> <<EdgeMapSize, EdgeMapSize>>]

EdgeInputs ==
    { Input({"w"}, <<2, 0>>, 1), Input({"w"}, <<0, 0>>, 1), Input({"w"}, <<0, 0>>, 3),
      Input({"s"}, <<0, 0>>, 1), Input({"s"}, <<0, 0>>, 3), Input({}, <<0, 0>>, 1) }

InitEdge == InitApp(EdgeMap, 300)

NextEdge == ticks < MaxEdgeTicks /\ \E in \in EdgeInputs : Tick(in)

SpecEdge == InitEdge /\ [][NextEdge]_vars

\* Modes: the jump key pressed and released over short frames (1/60 s) and
\* long ones (250 ms, a frame held up by the first call's compilation or by
\* the system); the first poll comes 300 ms after pg.init.
MaxModeTicks == 5

ModeInputs ==
    { Input(h, <<0, 0>>, dt) : h \in { {}, {"space"} }, dt \in {1, 15} }

InitMode == InitApp(Hills, 300)

NextMode == ticks < MaxModeTicks /\ \E in \in ModeInputs : Tick(in)

SpecMode == InitMode /\ [][NextMode]_vars

\* Chunks: the main loop and the chunk_loader thread, interleaved freely.  The
\* map is two chunks wide; the player, starting in chunk (1, 1), is driven
\* for MaxChunkTicks frames and the loop then runs on without input, in
\* frames of 100 ms (the player drifts to rest), with the clock reading and
\* the frame count held at their bound: no jump-key edge occurs there, so the
\* reading is not used.  A frame waits while more than MaxQueue - 9 requests
\* are pending, which bounds the queue.  Both threads keep being scheduled.
MaxChunkTicks == 2

MaxQueue == 18

ChunkMapSize == 20

ChunkMap == [kind |-> "hills", shape |-> <<ChunkMapSize, ChunkMapSize>>]

ChunkInputs ==
    { Input({"s"}, <<0, 0>>, 3), Input({"w"}, <<0, 0>>, 3), Input({}, <<0, 0>>, 1) }

InitChunk == InitApp(ChunkMap, 300)

QueueRoom ==
    Len(cm.load_queue) + (2 * LOAD_DISTANCE + 1) * (2 * LOAD_DISTANCE + 1) <= MaxQueue

DrivenFrame == ticks < MaxChunkTicks /\ QueueRoom /\ \E in \in ChunkInputs : Tick(in)

IdleInput == Input({}, <<0, 0>>, 6)

IdleFrame == ticks >= MaxChunkTicks /\ QueueRoom /\ Frame(IdleInput, now, ticks)

MainLoop == DrivenFrame \/ IdleFrame

chunk_loader == WorkerGet \/ WorkerCheck \/ WorkerInsert \/ WorkerTaskDone

NextChunk == MainLoop \/ chunk_loader

\* ENABLED <<MainLoop>>_vars as a state predicate: a driven frame always
\* changes the state (the frame count), an idle frame changes it unless the
\* player is at rest, the last poll was idle too and nothing is to be
\* requested or deleted.
MainLoopEnabled ==
    /\ QueueRoom
    /\ \/ ticks < MaxChunkTicks
       \/ LET p == update_player(player, IdleInput, base_height_map, now,
                                 TuneWorldScale(app.world_scale, IdleInput))
          IN  \/ player # p
              \/ cm # load_chunks_around(p.pos, cm)
              \/ keys # IdleInput
              \/ app.dt # IdleInput.dt60
              \/ vr # update_voxel_render(vr, p, SCREEN_WIDTH, app.draw_distance)

\* Weak fairness of the main loop, WF_vars(MainLoop): in a behavior of
\* NextChunk the steps that leave the worker as it is are the main loop's.
MainLoopFair == []<>(~MainLoopEnabled) \/ []<><<worker' = worker>>_vars

SpecChunk ==
    InitChunk /\ [][NextChunk]_vars /\ MainLoopFair /\ WF_vars(chunk_loader)

\* The sky: the yaw turned left and right by the mouse, several times round.
MaxSkyTicks == 5

SkyInputs ==
    { Input({}, <<m, 0>>, dt) : m \in {-7, -1, 2, 5}, dt \in {1, 3} }

NextSky == ticks < MaxSkyTicks /\ \E in \in SkyInputs : Tick(in)

SpecSky == Init /\ [][NextSky]_vars

\* One ray_casting call on the hills: the camera at two places, three yaws,
\* four heights about the floor (the breathing offset can take it below),
\* three pitches, two world scales, one or two columns.
MaxRayDistance == 6

RayArgs ==
    { [ player_pos    |-> pos,
        player_angle  |-> angle,
        player_height |-> FloorHeight(pos, Hills, ws) + off,
        player_pitch  |-> pitch,
        screen_width  |-> width,
        screen_height |-> SCREEN_HEIGHT,
        ray_distance  |-> MaxRayDistance,
        world_scale   |-> ws ] :
        pos \in { <<4000, 4000>>, <<1500, 6200>> },
        angle \in {3, 0, 14},
        off \in {0, U, (-2) * U, 45 * U},
        pitch \in {0, 300 * U, (-200) * U},
        width \in {1, 2},
        ws \in {U, 2 * U} }

InitRay == InitProgram(Hills, 0) /\ \E a \in RayArgs : rc = RayStart(a)

NextRay == RayMarch \/ RayEndColumn

SpecRay == InitRay /\ [][NextRay]_vars

---------------------------------------------------------------------------
(* Claims *)

\* C1.  Collision invariant: after every update_player the player's height is
\* at least the terrain height sampled at the player's position times
\* world_scale, plus 40 * world_scale.
C1_CollisionInvariant ==
    player.height >=
        optimized_collision_check(player.pos, base_height_map) * app.world_scale
          + 40 * app.world_scale

\* C1's case: a flying player pressed down onto the terrain by the descend
\* key, stopped by the collision step.
C1_Witness ==
    /\ player.flying
    /\ keys.shift /\ keys.dt60 > 0
    /\ player.height =
         optimized_collision_check(player.pos, base_height_map) * app.world_scale
           + 40 * app.world_scale

\* C2.  Pitch bound: initially and after every update_player the pitch lies in
\* [PITCH_MIN, PITCH_MAX].
C2_PitchBound == (-1000) * U <= player.pitch /\ player.pitch <= 1000 * U

\* C2's case: a mouse movement that would carry the pitch past the upper limit.
C2_Witness ==
    /\ ticks > 0
    /\ keys.mouse_rel[2] < 0
    /\ 0 - keys.mouse_rel[2] * PITCH_MOUSE_GAIN * keys.dt60 > 1000 * U
    /\ player.pitch = 1000 * U

\* C3.  Draw-distance bound: in every reachable state from init_app onward,
\* draw_distance and the ray_distance handed to the raycaster lie in
\* [500, 3000].
C3_DrawDistanceBound ==
    /\ app.draw_distance \in 500 .. 3000
    /\ vr.ray_distance \in 500 .. 3000

\* C4.  World-scale bound: in every reachable state world_scale lies in
\* [WORLD_SCALE_MIN, WORLD_SCALE_MAX].
C4_WorldScaleBound == 1 * U <= app.world_scale /\ app.world_scale <= 5 * U

\* C4's case: the scale-increase key held at the upper limit.
C4_Witness ==
    /\ ticks > 0
    /\ keys.plus /\ ~keys.minus
    /\ app.world_scale = 5 * U

\* A jump-key down-edge in the step: the key is down at this poll and was up
\* at the last.
JumpEdge == keys'.space /\ ~keys.space

\* C5.  Double-tap semantics: a jump-key down-edge less than 300 ms after the
\* previous down-edge toggles flying and applies no jump force; when it
\* enters flying, flying is true and the jump/gravity velocity is 0.
C5_DoubleTap ==
    [][ (JumpEdge /\ last_edge[2] # NoEdge /\ now' - last_edge[2] < 300)
          => /\ player'.flying = ~player.flying
             /\ player'.velocity_y <= 0
             /\ (player'.flying => player'.velocity_y = 0) ]_vars

\* C5's case: the second of two down-edges less than 300 ms apart has just
\* switched flying on.
C5_Witness ==
    /\ keys.space
    /\ last_edge[2] = now
    /\ last_edge[1] # NoEdge /\ last_edge[2] - last_edge[1] < 300
    /\ last_edge[1] >= 300
    /\ player.flying /\ player.velocity_y = 0

\* The step is a single tap as the code detects it: a down-edge at least
\* 300 ms after the previous one, or after time 0 when there was none.
SingleTap ==
    /\ JumpEdge
    /\ now' - (IF last_edge[2] = NoEdge THEN 0 ELSE last_edge[2]) >= 300

\* The jump velocity of the step, JUMP_FORCE / world_scale, less the gravity
\* of the same frame.
JumpLessGravity ==
    MulU(12 * U, DivU(U, app'.world_scale)) - ((9 * U) \div 10) * keys'.dt60

C7_RestingOnFlat ==
    /\ player.height = 40 * U
    /\ player.velocity_y = 0
    /\ player.is_on_ground
    /\ ~player.flying

\* C7's case: some frames have run, of positive length, and the player has
\* walked away from the start.
C7_Witness ==
    /\ base_height_map.kind = "flat"
    /\ ticks >= 2 /\ keys.dt60 > 0
    /\ player.pos # <<(MapSize \div 2) * U, (MapSize \div 2) * U>>
    /\ player.height = 40 * U /\ player.is_on_ground

\* Where the step's movement would put the player before the clamp.
PreClampPos ==
    HorizontalMovement(MouseLook(player, keys'), keys', app'.world_scale).pos

\* C8.  Edge clamp: a player standing at a map edge (0 or dimension - 1) and
\* driven further toward it for another frame is left exactly at 0 or
\* dimension - 1 on that axis, with that axis' velocity component
\* non-negative at the low edge and non-positive at the high edge.
C8_EdgeClamp ==
    [][ \A i \in {1, 2} :
          LET top == (base_height_map.shape[i] - 1) * U
          IN  /\ (player.pos[i] = top /\ PreClampPos[i] > top)
                    => (player'.pos[i] = top /\ player'.vel[i] <= 0)
              /\ (player.pos[i] = 0 /\ PreClampPos[i] < 0)
                    => (player'.pos[i] = 0 /\ player'.vel[i] >= 0) ]_vars

\* C9.  Horizon monotonicity: within one column's march the column's horizon
\* y_buffer[num_ray] never grows as depth increases.
C9_HorizonMonotone ==
    [][ rc.pc = "march"
          => \A c \in DOMAIN rc.y_buffer : rc'.y_buffer[c] <= rc.y_buffer[c] ]_vars

\* C9's case: deep in a column's march, its horizon lowered at least twice.
C9_Witness ==
    /\ rc.pc = "march"
    /\ rc.depth >= 4
    /\ rc.lowerings >= 2
    /\ rc.y_buffer[rc.num_ray] < rc.screen_height

\* No movement key is held in the poll k.
ZeroMove(k) == ~k.w /\ ~k.s /\ ~k.a /\ ~k.d

\* The square of a vector's length.
Norm2(v) == v[1] * v[1] + v[2] * v[2]

\* C10 as stated.  Velocity decay: with zero movement input sustained over
\* consecutive frames at a fixed dt, the magnitude of the horizontal velocity
\* strictly decreases from each frame to the next.
C10_Original ==
    [][ (ticks >= 1 /\ ZeroMove(keys) /\ ZeroMove(keys')
         /\ keys'.dt60 = keys.dt60 /\ keys'.dt60 > 0)
          => Norm2(player'.vel) < Norm2(player.vel) ]_vars

\* C10 as amended.  In a frame with zero movement input and dt > 0 each
\* velocity component is multiplied by DAMPING ** (dt * 60) (the edge clamp may
\* then cut it to 0): the magnitude never grows, a zero velocity stays zero,
\* and the magnitude strictly decreases whenever a component is above the
\* rounding of the arithmetic (here 0.003).
C10_VelocityDecay ==
    [][ (ZeroMove(keys') /\ keys'.dt60 > 0)
          => /\ \A i \in {1, 2} :
                  player'.vel[i] \in
                      {MulU(player.vel[i], Pow((8 * U) \div 10, keys'.dt60)), 0}
             /\ Norm2(player'.vel) <= Norm2(player.vel)
             /\ (player.vel = <<0, 0>> => player'.vel = <<0, 0>>)
             /\ ((\E i \in {1, 2} : Abs(player.vel[i]) >= 3)
                    => Norm2(player'.vel) < Norm2(player.vel)) ]_vars

\* C10's case: a frame without movement input has just run and the velocity
\* built up before it is still not zero.
C10_Witness ==
    /\ ticks >= 2
    /\ ZeroMove(keys) /\ keys.dt60 > 0
    /\ Abs(player.vel[2]) >= 3

\* C11.  Flying changes only on a double tap: in any tick the value of flying
\* changes only if the tick has a jump-key down-edge and an earlier down-edge
\* occurred less than 300 ms before it; the first jump-key press of a session
\* never toggles flying.
C11_FlyingOnlyOnDoubleTap ==
    [][ player'.flying # player.flying
          => /\ JumpEdge
             /\ last_edge[2] # NoEdge
             /\ now' - last_edge[2] < 300 ]_vars

\* C12.  Position range in clamp mode: after every update_player the position
\* satisfies 0 <= x <= W - 1 and 0 <= y <= H - 1.
C12_PositionRange ==
    \A i \in {1, 2} :
        0 <= player.pos[i] /\ player.pos[i] <= (base_height_map.shape[i] - 1) * U

\* The height the step's vertical movement and terrain collision leave, before
\* the flying toggle and the gravity step.
HeightBeforeGravity ==
    TerrainCollision(
        VerticalMovement(
            ClampPosition(
                HorizontalMovement(MouseLook(player, keys'), keys', app'.world_scale),
                base_height_map),
            keys', app'.world_scale),
        base_height_map, app'.world_scale).height

\* C13.  Gravity applies only when not flying: in a tick that ends with flying
\* true the gravity velocity is not decremented (it is what it was, or the 0
\* that entering flying sets), the height is what the vertical movement and
\* the collision left, and grounded is unchanged.
C13_NoGravityWhenFlying ==
    [][ (ticks' # ticks /\ player'.flying)
          => /\ player'.velocity_y = (IF player.flying THEN player.velocity_y ELSE 0)
             /\ player'.height = HeightBeforeGravity
             /\ player'.is_on_ground = player.is_on_ground ]_vars

\* C13's case: a frame of positive length has run with the player flying
\* above the floor, where gravity would have pulled.
C13_Witness ==
    /\ player.flying
    /\ last_edge[2] # NoEdge /\ last_edge[2] < now
    /\ keys.dt60 > 0
    /\ player.velocity_y = 0
    /\ player.height > FloorHeight(player.pos, base_height_map, app.world_scale)

\* The column's horizon as the pass at the current depth finds it once the
\* first contact has initialised it: min(height_on_screen, screen_height) at
\* the column's first sample, y_buffer[num_ray] after.
HorizonAtTest ==
    LET xy == RaySample(rc)
    IN  IF rc.first_contact THEN rc.y_buffer[rc.num_ray]
        ELSE Min(HeightOnScreen(rc, base_height_map, xy[1], xy[2]), rc.screen_height)

\* The sample's projected row, clamped to >= 0.
ScreenY ==
    LET xy == RaySample(rc)
    IN  Max(HeightOnScreen(rc, base_height_map, xy[1], xy[2]), 0)

\* C14.  No repainting and no out-of-range write: within one ray_casting call
\* every row of a column is written at most once, every written row lies in
\* [0, screen_height), and the rows a sample writes are exactly
\* [screenY, previous horizon), in that sample's color.
C14_NoRepaint ==
    [][ (rc.pc = "march" /\ rc'.depth = rc.depth + 1)
          => LET c    == rc.num_ray
                 rows == rc'.last_write
             IN  /\ rows \cap rc.written[c] = {}
                 /\ rows \subseteq 0 .. rc.screen_height - 1
                 /\ rows = ScreenY .. HorizonAtTest - 1
                 /\ \A row \in 0 .. rc.screen_height - 1 :
                        rc'.screen_array[c][row] =
                            IF row \in rows THEN RaySample(rc)
                            ELSE rc.screen_array[c][row] ]_vars

\* C14's case: a sample deep in a column has just painted rows below rows
\* painted by an earlier sample.
C14_Witness ==
    /\ rc.pc = "march"
    /\ rc.last_write # {}
    /\ rc.written[rc.num_ray] # rc.last_write
    /\ rc.num_ray = 1

\* C15.  Horizon range: throughout a ray_casting call every horizon value
\* y_buffer[c] lies in [0, screen_height].
C15_HorizonRange ==
    rc.pc # "idle"
        => \A c \in DOMAIN rc.y_buffer : rc.y_buffer[c] \in 0 .. rc.screen_height

\* C16.  Sky coverage: for every yaw, positive or negative, the sky x-offset
\* lies in [0, skyWidth) and the two sky copies blitted at -xOffset and
\* skyWidth - xOffset together cover every screen column in [0, frameWidth).
C16_SkyCoverage ==
    ticks > 0
        => /\ Len(vr.sky_blits) = 2
           /\ (0 - vr.sky_blits[1]) \in 0 .. vr.sky_width - 1
           /\ vr.sky_blits[2] = vr.sky_width + vr.sky_blits[1]
           /\ \A col \in 0 .. 800 - 1 :
                  \E i \in 1 .. 2 :
                      vr.sky_blits[i] <= col /\ col < vr.sky_blits[i] + vr.sky_width

\* C16's case: a negative yaw whose truncated offset is negative before the
\* modulo, with the seam between the two copies inside the screen.
C16_Witness ==
    /\ ticks > 0
    /\ player.angle < 0
    /\ vr.sky_blits[2] \in 1 .. 800 - 1

\* C17.  Mode exclusivity: the player is in exactly one of the modes grounded,
\* airborne, flying; flying and grounded (is_on_ground) are never both true.
C17_ModeExclusive == ~(player.flying /\ player.is_on_ground)

\* C18.  Chunk map stays inside the active area: under any interleaving of the
\* main thread's load_chunks_around calls and the chunk_loader worker, every
\* key in loaded_chunks is within LOAD_DISTANCE chunks of the player chunk
\* used by the most recent load_chunks_around call.
C18_ActiveArea ==
    LET cx == player.pos[1] \div (10 * U)
        cy == player.pos[2] \div (10 * U)
    IN  \A k \in cm.loaded_chunks : Abs(k[1] - cx) <= 1 /\ Abs(k[2] - cy) <= 1

\* The (2 * LOAD_DISTANCE + 1)^2 chunks around the chunk of position pos.
Around(pos) ==
    { <<pos[1] \div (10 * U) + dx, pos[2] \div (10 * U) + dy>> :
        dx \in -1 .. 1, dy \in -1 .. 1 }

\* C19.  Chunk loading converges: once the player stays in the same chunk,
\* with the worker thread scheduled again and again, loaded_chunks eventually
\* equals exactly the (2 * LOAD_DISTANCE + 1)^2 chunks around the player, and
\* a load_chunks_around call that finds it so enqueues no further request.
C19_ChunksConverge ==
    /\ <>[](cm.loaded_chunks = Around(player.pos) /\ Cardinality(cm.loaded_chunks) = 9)
    /\ [][ (worker' = worker /\ cm.loaded_chunks = Around(player'.pos))
              => cm' = cm ]_vars

\* C19's case: the player has left its first chunk, has come to rest, the
\* worker has emptied the queue and the nine chunks around the player are
\* loaded.
C19_Witness ==
    /\ ticks >= 2
    /\ player.vel = <<0, 0>>
    /\ Around(player.pos) # Around(<<10 * U, 10 * U>>)
    /\ cm.load_queue = <<>> /\ worker.pc = "get"
    /\ cm.loaded_chunks = Around(player.pos)

=============================================================================
